---- MODULE Spec2Model ----
(***************************************************************************)
(* Privacy Badger (Firefox): the content policy (lib/contentPolicy.js),    *)
(* the per-window settings map and the panel controller (lib/ui.js), with  *)
(* the helpers of lib/utils.js they call.                                  *)
(*                                                                         *)
(* Hosts are sequences of labels, so that the base domain is computed.     *)
(* A window object is a name; its top window is Top(w).  What              *)
(* window.top.location.href yields when the policy is called is part of    *)
(* the request (the browser owns it).                                      *)
(*                                                                         *)
(* Three specifications share the actions:                                 *)
(*   Spec        requests, decision events, navigation, reads of the       *)
(*               settings map and the panel's clearing handlers;           *)
(*   SpecPolicy  the policy on one request, over every content of the      *)
(*               rule lists;                                               *)
(*   SpecPanel   the panel and its popup staging and committing user       *)
(*               settings, with the calls that come in between.            *)
(***************************************************************************)
EXTENDS Integers, Sequences, FiniteSets, TLC

VARIABLES
  userRed,          \* storage.userRed: hosts the user blocked
  userYellow,       \* storage.userYellow: hosts the user cookie-blocked
  userGreen,        \* storage.userGreen: hosts the user allowed
  preloads,         \* storage.preloads: the preloaded whitelist
  blockedOrigins,   \* storage.blockedOrigins: base domains the heuristic blocked
  settingsMap,      \* ui.js settingsMap: top window -> table of origin -> tag
  changedSettings,  \* ui.js changedSettings: origin -> action, staged by the panel
  req,              \* the arguments of the most recent shouldLoad call
  last              \* the most recent operation and what it returned and emitted

vars == <<userRed, userYellow, userGreen, preloads, blockedOrigins,
          settingsMap, changedSettings, req, last>>

ruleLists == <<userRed, userYellow, userGreen, preloads, blockedOrigins>>

(***************************************************************************)
(* Values                                                                  *)
(***************************************************************************)
ACCEPT == "ACCEPT"
REJECT == "REJECT"
\* shouldLoad ends by raising instead of returning
THROWN == "TypeError"

TYPE_DOCUMENT == "TYPE_DOCUMENT"
TYPE_SCRIPT == "TYPE_SCRIPT"

BaseHost == <<"tracker", "com">>
SubHost == <<"cdn", "tracker", "com">>
SiteHost == <<"site", "com">>
NoHost == <<>>

EmptyMap == [x \in {} |-> x]

\* a[k] = v, the other keys kept
Put(a, k, v) == [x \in DOMAIN a \cup {k} |-> IF x = k THEN v ELSE a[x]]

\* delete a[k]
Remove(a, k) == [x \in DOMAIN a \ {k} |-> a[x]]

whitelistSchemes ==
  {"about", "chrome", "file", "irc", "moz-safe-about", "news", "resource",
   "snews", "x-jsd", "addbook", "cid", "imap", "mailbox", "nntp", "pop",
   "data", "javascript", "moz-icon"}

\* nsIURI values: a request location, or the href of a top window
HttpsURI(h) == [scheme |-> "https", host |-> h]
AboutBlank == [scheme |-> "about", host |-> NoHost]
\* topWin.location.href is missing or empty
NoHref == [scheme |-> "", host |-> NoHost]

\* window objects; F1 is a frame inside W1
Windows == {"W1", "F1", "W2"}
Top(w) == IF w = "F1" THEN "W1" ELSE w
TopWindows == {Top(w) : w \in Windows}
NullWindow == "null"
\* what QueryInterface(nsIHttpChannel) hands back: an object with no .top
ChannelObject == "channel"

\* the context (node) argument of shouldLoad
NoNode == [kind |-> "none", win |-> NullWindow]
OpaqueNode == [kind |-> "opaque", win |-> NullWindow]
ChannelNode == [kind |-> "channel", win |-> NullWindow]
WindowNode(w) == [kind |-> "window", win |-> w]
ElementNode(w) == [kind |-> "element", win |-> w]

(***************************************************************************)
(* lib/utils.js                                                            *)
(***************************************************************************)
\* ThirdPartyUtil.getBaseDomain: the registrable domain, one label under the
\* public suffix (every suffix here is the single label "com")
getBaseDomain(host) ==
  IF Len(host) <= 2 THEN host ELSE SubSeq(host, Len(host) - 1, Len(host))

getWindowForContext(aContext) ==
  CASE aContext.kind = "window" -> aContext.win
    [] aContext.kind = "element" -> aContext.win
    [] aContext.kind = "channel" -> ChannelObject
    [] OTHER -> NullWindow

\* makeURI on both, then ThirdPartyUtil.isThirdPartyURI, which raises for a
\* URI that has no host (about:blank)
isThirdPartyURI(uri, docUri) ==
  IF uri.host = NoHost \/ docUri.host = NoHost
  THEN [threw |-> TRUE, value |-> FALSE]
  ELSE [threw |-> FALSE,
        value |-> getBaseDomain(uri.host) # getBaseDomain(docUri.host)]

(***************************************************************************)
(* lib/ui.js: the settings map                                             *)
(***************************************************************************)
\* a table is a JS object: its origin keys, and whether it has the key "cleared"
EmptyTable == [cleared |-> FALSE, tags |-> EmptyMap]
ClearedTable == [cleared |-> TRUE, tags |-> EmptyMap]

\* settingsMap.get(win, {}): the two-argument get of the Firefox this add-on
\* runs on hands back the default for a missing key
MapGet(map, win) == IF win \in DOMAIN map THEN map[win] ELSE EmptyTable

Event(msg, aWin, aOrigin) == [msg |-> msg, win |-> aWin, origin |-> aOrigin]

\* mutant: an origin already on the table is taken off it
updateSettingsListener_Toggle(map, msg, aWin, aOrigin) ==
  IF aWin = NullWindow THEN map
  ELSE IF aOrigin = NoHost THEN map
  ELSE LET top == Top(aWin)
           setting == MapGet(map, top)
       IN Put(map, top,
              [setting EXCEPT !.tags = IF aOrigin \in DOMAIN setting.tags
                                       THEN Remove(setting.tags, aOrigin)
                                       ELSE Put(setting.tags, aOrigin, msg)])

\* mutant: the table is kept under the window itself, not under its top window
updateSettingsListener_NoTop(map, msg, aWin, aOrigin) ==
  IF aWin = NullWindow THEN map
  ELSE IF aOrigin = NoHost THEN map
  ELSE LET setting == MapGet(map, aWin)
       IN Put(map, aWin, [setting EXCEPT !.tags = Put(setting.tags, aOrigin, msg)])

\* mutant: a tag already on record for the origin is kept
updateSettingsListener_KeepFirst(map, msg, aWin, aOrigin) ==
  IF aWin = NullWindow THEN map
  ELSE IF aOrigin = NoHost THEN map
  ELSE LET top == Top(aWin)
           setting == MapGet(map, top)
       IN IF aOrigin \in DOMAIN setting.tags THEN map
          ELSE Put(map, top,
                   [setting EXCEPT !.tags = Put(setting.tags, aOrigin, msg)])

\* mutant: an event without an origin is put on record like any other
updateSettingsListener_NoOriginCheck(map, msg, aWin, aOrigin) ==
  IF aWin = NullWindow THEN map
  ELSE LET top == Top(aWin)
           setting == MapGet(map, top)
       IN Put(map, top, [setting EXCEPT !.tags = Put(setting.tags, aOrigin, msg)])

updateSettingsListener(map, msg, aWin, aOrigin) ==
  IF aWin = NullWindow THEN map
  ELSE IF aOrigin = NoHost THEN map
  ELSE LET top == Top(aWin)
           setting == MapGet(map, top)
       IN Put(map, top, [setting EXCEPT !.tags = Put(setting.tags, aOrigin, msg)])

\* emit(settingsMap, "update-settings", ...) calls the listener at once
RECURSIVE Deliver(_, _)
Deliver(map, events) ==
  IF events = <<>> THEN map
  ELSE Deliver(updateSettingsListener(map, Head(events).msg, Head(events).win,
                                      Head(events).origin),
               Tail(events))

\* mutant: the table is marked cleared instead of deleted
clearSettingsListener_Mark(map, aWin) == Put(map, aWin, ClearedTable)

clearSettingsListener(map, aWin) == Remove(map, aWin)

(***************************************************************************)
(* lib/contentPolicy.js: Policy.  A check hands back what it returned      *)
(* (ret), the update-settings events it emitted, in order, and the hosts   *)
(* it passed to cookieUtils.clobberCookie.                                  *)
(***************************************************************************)
Outcome(ret, events, clobbered) ==
  [ret |-> ret, events |-> events, clobbered |-> clobbered]

hasWhitelistedScheme(location) == location.scheme \in whitelistSchemes

\* shouldLoad passes no channel, so the channel branch is not taken
\* mutant: document loads are not let through
isBlockableRequest_NoDocumentCheck(location, window, href, contentType) ==
  IF hasWhitelistedScheme(location) THEN [threw |-> FALSE, value |-> FALSE]
  ELSE IF window = NullWindow THEN [threw |-> TRUE, value |-> FALSE]
  ELSE IF window = ChannelObject \/ href = NoHref
    THEN [threw |-> FALSE, value |-> FALSE]
  ELSE LET party == isThirdPartyURI(location, href)
       IN [threw |-> FALSE, value |-> IF party.threw THEN TRUE ELSE party.value]

isBlockableRequest(location, window, href, contentType) ==
  IF hasWhitelistedScheme(location) THEN [threw |-> FALSE, value |-> FALSE]
  ELSE IF contentType = TYPE_DOCUMENT THEN [threw |-> FALSE, value |-> FALSE]
  \* window.top of null raises a TypeError
  ELSE IF window = NullWindow THEN [threw |-> TRUE, value |-> FALSE]
  \* !topWin || !topWin.location || !topWin.location.href
  ELSE IF window = ChannelObject \/ href = NoHref
    THEN [threw |-> FALSE, value |-> FALSE]
  ELSE LET party == isThirdPartyURI(location, href)
       \* isThirdParty starts true and the catch only logs
       IN [threw |-> FALSE, value |-> IF party.threw THEN TRUE ELSE party.value]

\* mutant: the host, not its base domain, is looked up on the blocklist
heuristicBlocksRequest_HostKey(location, window) ==
  LET host == location.host
  IN IF host \in blockedOrigins
     THEN Outcome(TRUE, <<Event("block", window, host)>>, <<>>)
     ELSE Outcome(FALSE, <<>>, <<>>)

heuristicBlocksRequest(location, window) ==
  LET host == location.host
      origin == getBaseDomain(location.host)
  IN IF origin \in blockedOrigins
     THEN Outcome(TRUE, <<Event("block", window, host)>>, <<>>)
     ELSE Outcome(FALSE, <<>>, <<>>)

\* mutant: the cookie is not clobbered
heuristicCookieblocksRequest_NoClobber(location, window) ==
  LET host == location.host
      origin == getBaseDomain(location.host)
  IN IF host \in preloads \/ origin \in preloads
     THEN IF origin \in blockedOrigins
          THEN Outcome(TRUE, <<Event("cookieblock", window, host)>>, <<>>)
          ELSE Outcome(FALSE, <<Event("noaction", window, host)>>, <<>>)
     ELSE Outcome(FALSE, <<>>, <<>>)

heuristicCookieblocksRequest(location, window) ==
  LET host == location.host
      origin == getBaseDomain(location.host)
  IN IF host \in preloads \/ origin \in preloads
     THEN IF origin \in blockedOrigins
          THEN Outcome(TRUE, <<Event("cookieblock", window, host)>>, <<host>>)
          ELSE Outcome(FALSE, <<Event("noaction", window, host)>>, <<>>)
     ELSE Outcome(FALSE, <<>>, <<>>)

\* mutant: the host, not its base domain, is looked up on userRed
subdomainCookieblocksRequest_HostKey(location, window) ==
  LET host == location.host
      origin == getBaseDomain(location.host)
  IN IF host \in userRed \/ origin \in blockedOrigins
     THEN Outcome(TRUE, <<Event("cookieblock", window, host)>>, <<host>>)
     ELSE Outcome(FALSE, <<>>, <<>>)

subdomainCookieblocksRequest(location, window) ==
  LET host == location.host
      origin == getBaseDomain(location.host)
  IN IF origin \in userRed \/ origin \in blockedOrigins
     THEN Outcome(TRUE, <<Event("cookieblock", window, host)>>, <<host>>)
     ELSE Outcome(FALSE, <<>>, <<>>)

\* mutant: a block of the base domain blocks its subdomains too
isUserRedRequest_BaseToo(location, window) ==
  LET host == location.host
  IN IF host \in userRed \/ getBaseDomain(host) \in userRed
     THEN Outcome(TRUE,
                  IF window # NullWindow
                  THEN <<Event("userblock", window, host)>> ELSE <<>>,
                  <<>>)
     ELSE Outcome(FALSE, <<>>, <<>>)

isUserRedRequest(location, window) ==
  LET host == location.host
  IN IF host \in userRed
     THEN Outcome(TRUE,
                  IF window # NullWindow
                  THEN <<Event("userblock", window, host)>> ELSE <<>>,
                  <<>>)
     ELSE Outcome(FALSE, <<>>, <<>>)

\* mutant: the cookie is clobbered on a match of the host too
isUserYellowRequest_AlwaysClobber(location, window) ==
  LET host == location.host
      origin == getBaseDomain(location.host)
      emitted == IF window # NullWindow
                 THEN <<Event("usercookieblock", window, host)>> ELSE <<>>
  IN IF host \in userYellow \/ origin \in userYellow
     THEN Outcome(TRUE, emitted, <<host>>)
     ELSE Outcome(FALSE, <<>>, <<>>)

\* mutant: only the host is looked up, not its base domain
isUserYellowRequest_HostOnly(location, window) ==
  LET host == location.host
      emitted == IF window # NullWindow
                 THEN <<Event("usercookieblock", window, host)>> ELSE <<>>
  IN IF host \in userYellow THEN Outcome(TRUE, emitted, <<>>)
     ELSE Outcome(FALSE, <<>>, <<>>)

isUserYellowRequest(location, window) ==
  LET host == location.host
      origin == getBaseDomain(location.host)
      emitted == IF window # NullWindow
                 THEN <<Event("usercookieblock", window, host)>> ELSE <<>>
  IN IF host \in userYellow THEN Outcome(TRUE, emitted, <<>>)
     ELSE IF origin \in userYellow THEN Outcome(TRUE, emitted, <<host>>)
     ELSE Outcome(FALSE, <<>>, <<>>)

isUserGreenRequest(location, window) ==
  LET host == location.host
  IN IF host \in userGreen
     THEN Outcome(TRUE,
                  IF window # NullWindow
                  THEN <<Event("usernoaction", window, host)>> ELSE <<>>,
                  <<>>)
     ELSE Outcome(FALSE, <<>>, <<>>)

\* the name of the filter that matched, or undefined
Undefined == "undefined"

\* mutant: userYellow is asked before userGreen
shouldIgnoreRequest_YellowFirst(location, window) ==
  LET green == isUserGreenRequest(location, window)
      yellow == isUserYellowRequest(location, window)
  IN IF yellow.ret THEN Outcome("userYellow", yellow.events, yellow.clobbered)
     ELSE IF green.ret THEN Outcome("userGreen", green.events, green.clobbered)
     ELSE IF location.host \in preloads THEN Outcome("preloads", <<>>, <<>>)
     ELSE Outcome(Undefined, <<>>, <<>>)

\* mutant: the preloads rule raises an event as the user rules do
shouldIgnoreRequest_PreloadsEmits(location, window) ==
  LET green == isUserGreenRequest(location, window)
      yellow == isUserYellowRequest(location, window)
  IN IF green.ret THEN Outcome("userGreen", green.events, green.clobbered)
     ELSE IF yellow.ret
       THEN Outcome("userYellow", yellow.events, yellow.clobbered)
     ELSE IF location.host \in preloads
       THEN Outcome("preloads",
                    <<Event("noaction", window, location.host)>>, <<>>)
     ELSE Outcome(Undefined, <<>>, <<>>)

shouldIgnoreRequest(location, window) ==
  LET green == isUserGreenRequest(location, window)
      yellow == isUserYellowRequest(location, window)
  IN IF green.ret THEN Outcome("userGreen", green.events, green.clobbered)
     ELSE IF yellow.ret
       THEN Outcome("userYellow", yellow.events, yellow.clobbered)
     ELSE IF location.host \in preloads THEN Outcome("preloads", <<>>, <<>>)
     ELSE Outcome(Undefined, <<>>, <<>>)

\* mutant: the three checks all run, whatever the earlier ones returned
shouldCookieblockRequest_NoShortCircuit(location, window) ==
  LET yellow == isUserYellowRequest(location, window)
      heur == heuristicCookieblocksRequest(location, window)
      subd == subdomainCookieblocksRequest(location, window)
  IN Outcome(yellow.ret \/ heur.ret \/ subd.ret,
             yellow.events \o heur.events \o subd.events,
             yellow.clobbered \o heur.clobbered \o subd.clobbered)

\* a || b || c: a later check runs only when the earlier ones returned false,
\* and what those emitted stays emitted
shouldCookieblockRequest(location, window) ==
  LET yellow == isUserYellowRequest(location, window)
      heur == heuristicCookieblocksRequest(location, window)
      subd == subdomainCookieblocksRequest(location, window)
  IN IF yellow.ret THEN yellow
     ELSE IF heur.ret
       THEN Outcome(TRUE, yellow.events \o heur.events,
                    yellow.clobbered \o heur.clobbered)
     ELSE Outcome(subd.ret, yellow.events \o heur.events \o subd.events,
                  yellow.clobbered \o heur.clobbered \o subd.clobbered)

(***************************************************************************)
(* lib/contentPolicy.js: ContentPolicy.shouldLoad                           *)
(***************************************************************************)
Request(contentType, location, node, href) ==
  [contentType |-> contentType, location |-> location, node |-> node,
   href |-> href]

\* mutant: the ignore rules are asked before userRed
shouldLoadOutcome_IgnoreFirst(contentType, contentLocation, node, href) ==
  LET window == IF node = NoNode THEN NullWindow ELSE getWindowForContext(node)
      blockable == isBlockableRequest(contentLocation, window, href, contentType)
      red == isUserRedRequest(contentLocation, window)
      ignore == shouldIgnoreRequest(contentLocation, window)
      heur == heuristicBlocksRequest(contentLocation, window)
  IN IF blockable.threw THEN Outcome(THROWN, <<>>, <<>>)
     ELSE IF ~blockable.value THEN Outcome(ACCEPT, <<>>, <<>>)
     ELSE IF ignore.ret # Undefined
       THEN Outcome(ACCEPT, ignore.events, ignore.clobbered)
     ELSE IF red.ret THEN Outcome(REJECT, red.events, red.clobbered)
     ELSE IF heur.ret THEN Outcome(REJECT, heur.events, heur.clobbered)
     ELSE Outcome(ACCEPT, <<>>, <<>>)

\* the verdict (or THROWN), the events emitted and the hosts clobbered
shouldLoadOutcome(contentType, contentLocation, node, href) ==
  LET window == IF node = NoNode THEN NullWindow ELSE getWindowForContext(node)
      blockable == isBlockableRequest(contentLocation, window, href, contentType)
      red == isUserRedRequest(contentLocation, window)
      ignore == shouldIgnoreRequest(contentLocation, window)
      heur == heuristicBlocksRequest(contentLocation, window)
  IN IF blockable.threw THEN Outcome(THROWN, <<>>, <<>>)
     ELSE IF ~blockable.value THEN Outcome(ACCEPT, <<>>, <<>>)
     ELSE IF red.ret THEN Outcome(REJECT, red.events, red.clobbered)
     ELSE IF ignore.ret # Undefined
       THEN Outcome(ACCEPT, ignore.events, ignore.clobbered)
     ELSE IF heur.ret THEN Outcome(REJECT, heur.events, heur.clobbered)
     ELSE Outcome(ACCEPT, <<>>, <<>>)

shouldLoad(r) ==
  LET out == shouldLoadOutcome(r.contentType, r.location, r.node, r.href)
  IN /\ settingsMap' = Deliver(settingsMap, out.events)
     /\ req' = r
     /\ last' = [op |-> "shouldLoad", verdict |-> out.ret, events |-> out.events,
                 clobbered |-> out.clobbered,
                 again |-> (last.op = "shouldLoad" /\ req = r)]
     /\ UNCHANGED <<ruleLists, changedSettings>>

\* Policy.shouldCookieblockRequest, called by the request observer
shouldCookieblock(location, window) ==
  LET out == shouldCookieblockRequest(location, window)
  IN /\ settingsMap' = Deliver(settingsMap, out.events)
     /\ last' = [op |-> "shouldCookieblock", location |-> location,
                 window |-> window, ret |-> out.ret, events |-> out.events,
                 clobbered |-> out.clobbered]
     /\ UNCHANGED <<ruleLists, changedSettings, req>>

\* Policy.shouldBlockRequest: isUserRedRequest || heuristicBlocksRequest
shouldBlockRequest(location, window) ==
  LET red == isUserRedRequest(location, window)
      heur == heuristicBlocksRequest(location, window)
  IN IF red.ret THEN red
     ELSE Outcome(heur.ret, red.events \o heur.events,
                  red.clobbered \o heur.clobbered)

\* Policy.shouldBlockRequest, called with the window of a request or with none
shouldBlock(location, window) ==
  LET out == shouldBlockRequest(location, window)
  IN /\ settingsMap' = Deliver(settingsMap, out.events)
     /\ last' = [op |-> "shouldBlock", location |-> location,
                 window |-> window, ret |-> out.ret, events |-> out.events,
                 clobbered |-> out.clobbered]
     /\ UNCHANGED <<ruleLists, changedSettings, req>>

(***************************************************************************)
(* lib/userStorage.js, called by the panel controller.  The file is not    *)
(* among the sources; its functions are modelled from the specification    *)
(* (4.3: block -> add to userRed, reset removes the origin from all user   *)
(* sets; 3: the sets are not kept mutually exclusive).                     *)
(***************************************************************************)
UserSets(red, yellow, green) == [red |-> red, yellow |-> yellow, green |-> green]

clearOrigin(sets, origin) ==
  UserSets(sets.red \ {origin}, sets.yellow \ {origin}, sets.green \ {origin})

addRed(sets, origin) == [sets EXCEPT !.red = @ \cup {origin}]

addYellow(sets, origin) == [sets EXCEPT !.yellow = @ \cup {origin}]

addGreen(sets, origin) == [sets EXCEPT !.green = @ \cup {origin}]

(***************************************************************************)
(* lib/ui.js: the panel controller                                         *)
(***************************************************************************)
\* mutant: the reset case has no break and falls through to the block case
applySetting_FallThrough(sets, origin, action) ==
  CASE action = "reset" -> addRed(clearOrigin(sets, origin), origin)
    [] action = "block" -> addRed(sets, origin)
    [] action = "cookieblock" -> addYellow(sets, origin)
    [] action = "noaction" -> addGreen(sets, origin)
    [] OTHER -> sets

\* one case of the switch in handleNewSettings; no case matches another tag
\* mutant: an action without a case of its own runs the last case
applySetting_DefaultLast(sets, origin, action) ==
  CASE action = "reset" -> clearOrigin(sets, origin)
    [] action = "block" -> addRed(sets, origin)
    [] action = "cookieblock" -> addYellow(sets, origin)
    [] OTHER -> addGreen(sets, origin)

applySetting(sets, origin, action) ==
  CASE action = "reset" -> clearOrigin(sets, origin)
    [] action = "block" -> addRed(sets, origin)
    [] action = "cookieblock" -> addYellow(sets, origin)
    [] action = "noaction" -> addGreen(sets, origin)
    [] OTHER -> sets

\* for (let origin in settings): each turn touches its own origin only, so the
\* order of the turns does not show in the result
RECURSIVE applySettings(_, _, _)
applySettings(sets, settings, origins) ==
  IF origins = {} THEN sets
  ELSE LET origin == CHOOSE o \in origins : TRUE
       IN applySettings(applySetting(sets, origin, settings[origin]), settings,
                        origins \ {origin})

\* mutant: the loop is left after its first turn
handleNewSettings_FirstOnly(settings, sets) ==
  IF DOMAIN settings = {}
  THEN [ret |-> FALSE, sets |-> sets, reloaded |-> FALSE]
  ELSE LET origin == CHOOSE o \in DOMAIN settings : TRUE
       IN [ret |-> TRUE, sets |-> applySetting(sets, origin, settings[origin]),
           reloaded |-> TRUE]

\* what handleNewSettings returns, the user lists it leaves, and whether it
\* reloaded the current tab
handleNewSettings(settings, sets) ==
  IF DOMAIN settings = {}
  THEN [ret |-> FALSE, sets |-> sets, reloaded |-> FALSE]
  ELSE [ret |-> TRUE, sets |-> applySettings(sets, settings, DOMAIN settings),
        reloaded |-> TRUE]

NoReq == Request("none", NoHref, NoNode, NoHref)

\* mutant: the setting is applied to the user lists as soon as it is staged
handleUpdate_Apply(data) ==
  LET sets == applySetting(UserSets(userRed, userYellow, userGreen),
                           data.origin, data.action)
  IN /\ changedSettings' = Put(changedSettings, data.origin, data.action)
     /\ userRed' = sets.red
     /\ userYellow' = sets.yellow
     /\ userGreen' = sets.green
     /\ req' = NoReq
     /\ last' = [op |-> "update", origin |-> data.origin, action |-> data.action]
     /\ UNCHANGED <<preloads, blockedOrigins, settingsMap>>

\* pbPanel.port.on("update"): handleUpdate(data)
handleUpdate(data) ==
  /\ changedSettings' = Put(changedSettings, data.origin, data.action)
  /\ req' = NoReq
  /\ last' = [op |-> "update", origin |-> data.origin, action |-> data.action]
  /\ UNCHANGED <<ruleLists, settingsMap>>

\* mutant: the origin is taken off the user lists as soon as reset is staged
handleReset_Apply(origin) ==
  LET sets == clearOrigin(UserSets(userRed, userYellow, userGreen), origin)
  IN /\ changedSettings' = Put(changedSettings, origin, "reset")
     /\ userRed' = sets.red
     /\ userYellow' = sets.yellow
     /\ userGreen' = sets.green
     /\ req' = NoReq
     /\ last' = [op |-> "reset", origin |-> origin, action |-> "reset"]
     /\ UNCHANGED <<preloads, blockedOrigins, settingsMap>>

\* pbPanel.port.on("reset")
handleReset(origin) ==
  /\ changedSettings' = Put(changedSettings, origin, "reset")
  /\ req' = NoReq
  /\ last' = [op |-> "reset", origin |-> origin, action |-> "reset"]
  /\ UNCHANGED <<ruleLists, settingsMap>>

\* the port messages lib/ui.js registers a handler for with pbPanel.port.on
portHandlers ==
  {"update", "reset", "activate", "deactivate", "deleteUserSettings",
   "deleteAllSettings"}

\* data/popup.js applySettings: self.port.emit("done", settings), settings
\* being what buildSettingsDict returns.  A port message nobody listens to is
\* dropped; a listener would stage each origin of it with its action.
popupApplySettings(settings) ==
  /\ changedSettings' =
       IF "done" \in portHandlers
       THEN [o \in DOMAIN changedSettings \cup DOMAIN settings |->
               IF o \in DOMAIN settings THEN settings[o] ELSE changedSettings[o]]
       ELSE changedSettings
  /\ req' = NoReq
  /\ last' = [op |-> "done", settings |-> settings,
              received |-> ("done" \in portHandlers)]
  /\ UNCHANGED <<ruleLists, settingsMap>>

\* mutant: the staged settings are not emptied after the commit
onHide_KeepStaged ==
  LET done == handleNewSettings(changedSettings,
                                UserSets(userRed, userYellow, userGreen))
  IN /\ userRed' = done.sets.red
     /\ userYellow' = done.sets.yellow
     /\ userGreen' = done.sets.green
     /\ req' = NoReq
     /\ last' = [op |-> "hide", settings |-> changedSettings, ret |-> done.ret,
                 reloaded |-> done.reloaded,
                 before |-> UserSets(userRed, userYellow, userGreen),
                 repeat |-> (last.op = "hide")]
     /\ UNCHANGED <<preloads, blockedOrigins, settingsMap, changedSettings>>

\* pbPanel onHide
onHide ==
  LET done == handleNewSettings(changedSettings,
                                UserSets(userRed, userYellow, userGreen))
  IN /\ userRed' = done.sets.red
     /\ userYellow' = done.sets.yellow
     /\ userGreen' = done.sets.green
     /\ changedSettings' = EmptyMap
     /\ req' = NoReq
     /\ last' = [op |-> "hide", settings |-> changedSettings, ret |-> done.ret,
                 reloaded |-> done.reloaded,
                 before |-> UserSets(userRed, userYellow, userGreen),
                 repeat |-> (last.op = "hide")]
     /\ UNCHANGED <<preloads, blockedOrigins, settingsMap>>

LOCATION_CHANGE_SAME_DOCUMENT == 1

\* the aFlags the progress listener is called with: none, same document, error page
LocationFlags == {0, LOCATION_CHANGE_SAME_DOCUMENT, 2}

\* the location change is a document change
IsDocumentChange(aFlags) ==
  aFlags = 0 \/ aFlags # LOCATION_CHANGE_SAME_DOCUMENT

\* mutant: any location change clears the settings of every window
onLocationChange_ClearsAll(aWin, aFlags) ==
  /\ settingsMap' = EmptyMap
  /\ req' = NoReq
  /\ last' = [op |-> "locationChange", win |-> aWin, flags |-> aFlags,
              cleared |-> IsDocumentChange(aFlags),
              had |-> (aWin \in DOMAIN settingsMap
                       /\ DOMAIN settingsMap[aWin].tags # {})]
  /\ UNCHANGED <<ruleLists, changedSettings>>

\* PBListener.onLocationChange, aWin being aProgress.DOMWindow
onLocationChange(aWin, aFlags) ==
  /\ settingsMap' = IF IsDocumentChange(aFlags)
                    THEN clearSettingsListener(settingsMap, aWin)
                    ELSE settingsMap
  /\ req' = NoReq
  /\ last' = [op |-> "locationChange", win |-> aWin, flags |-> aFlags,
              cleared |-> IsDocumentChange(aFlags),
              had |-> (aWin \in DOMAIN settingsMap
                       /\ DOMAIN settingsMap[aWin].tags # {})]
  /\ UNCHANGED <<ruleLists, changedSettings>>

\* no location change came right before
NoClear == [win |-> NullWindow, had |-> FALSE]

\* getCurrentSettings, topContentWindow being the selected tab's window
getCurrentSettings(topContentWindow) ==
  /\ req' = NoReq
  /\ last' = [op |-> "getCurrentSettings", win |-> topContentWindow,
              result |-> MapGet(settingsMap, topContentWindow),
              after |-> IF last.op = "locationChange" /\ last.cleared
                        THEN [win |-> last.win, had |-> last.had]
                        ELSE NoClear]
  /\ UNCHANGED <<ruleLists, settingsMap, changedSettings>>

\* emit(settingsMap, "update-settings", msg, aWin, aOrigin) on the exported
\* settingsMap: the listener alone, as any module may call it
recordDecision(msg, aWin, aOrigin) ==
  /\ settingsMap' = updateSettingsListener(settingsMap, msg, aWin, aOrigin)
  /\ req' = NoReq
  /\ last' = [op |-> "recordDecision", events |-> <<Event(msg, aWin, aOrigin)>>]
  /\ UNCHANGED <<ruleLists, changedSettings>>

\* the names lib/utils.js exports
utilsExports ==
  {"isThirdPartyURI", "getBaseDomain", "isThirdPartyChannel",
   "getWindowForChannel", "getMostRecentWindow", "getMostRecentContentWindow",
   "getTopWindowForChannel", "getHostname", "getWindowForContext",
   "reloadCurrentTab"}

\* mutant: utils hands back the open top windows, and each is given the
\* table {cleared: true}
clearSettings_Marks(map) ==
  [map |-> [w \in TopWindows |-> ClearedTable], threw |-> FALSE]

\* clearSettings: settingsMap.clear(), then utils.getAllWindows() and a
\* {cleared: true} table for each window it hands back.  Calling a name that
\* utils does not export raises a TypeError, and the rest is not run.
clearSettings(map) ==
  IF "getAllWindows" \in utilsExports
  THEN [map |-> [w \in TopWindows |-> ClearedTable], threw |-> FALSE]
  ELSE [map |-> EmptyMap, threw |-> TRUE]

\* userStorage.empty(), not among the sources: every origin is taken off the
\* three user lists
empty(sets) == UserSets({}, {}, {})

\* the handlers of activate, deactivate, deleteUserSettings and
\* deleteAllSettings: sets are the user lists and blocked the heuristic list
\* as the call before clearSettings leaves them.  What follows clearSettings
\* (prefs.pbEnabled, reloadCurrentTab, emitRefresh) runs only when it returns.
clearAllHandler(name, sets, blocked) ==
  LET done == clearSettings(settingsMap)
  IN /\ settingsMap' = done.map
     /\ userRed' = sets.red
     /\ userYellow' = sets.yellow
     /\ userGreen' = sets.green
     /\ blockedOrigins' = blocked
     /\ req' = NoReq
     /\ last' = [op |-> name, threw |-> done.threw,
                 refreshed |-> ~done.threw,
                 had |-> {w \in DOMAIN settingsMap :
                            DOMAIN settingsMap[w].tags # {}}]
     /\ UNCHANGED <<preloads, changedSettings>>

\* pbPanel.port.on("activate")
activate ==
  clearAllHandler("activate", UserSets(userRed, userYellow, userGreen),
                  blockedOrigins)

\* pbPanel.port.on("deactivate")
deactivate ==
  clearAllHandler("deactivate", UserSets(userRed, userYellow, userGreen),
                  blockedOrigins)

\* pbPanel.port.on("deleteUserSettings"): userStorage.empty() comes first
deleteUserSettings ==
  clearAllHandler("deleteUserSettings",
                  empty(UserSets(userRed, userYellow, userGreen)),
                  blockedOrigins)

\* pbPanel.port.on("deleteAllSettings"): main.empty() comes first; main.js is
\* not among the sources, it is taken to empty the user lists and the
\* heuristic list
deleteAllSettings ==
  clearAllHandler("deleteAllSettings",
                  empty(UserSets(userRed, userYellow, userGreen)), {})

(***************************************************************************)
(* The add-on at work: requests of pages, navigation, the panel reading    *)
(* the current tab's settings and clearing them.                           *)
(***************************************************************************)
RuleHosts == {SubHost, BaseHost}

RunRequests ==
  {Request(TYPE_SCRIPT, HttpsURI(h), n, HttpsURI(SiteHost)) :
     h \in RuleHosts, n \in {ElementNode("F1"), WindowNode("W2")}}

Init ==
  /\ userRed \in SUBSET RuleHosts
  /\ userYellow \in SUBSET {BaseHost}
  /\ userGreen = {}
  /\ preloads \in SUBSET {SubHost}
  /\ blockedOrigins \in SUBSET {BaseHost}
  /\ settingsMap = EmptyMap
  /\ changedSettings = EmptyMap
  /\ req = NoReq
  /\ last = [op |-> "init"]

Next ==
  \/ \E r \in RunRequests : shouldLoad(r)
  \/ \E h \in RuleHosts, w \in {"F1", NullWindow} :
       shouldCookieblock(HttpsURI(h), w)
  \/ \E w \in Windows, f \in LocationFlags : onLocationChange(w, f)
  \/ \E w \in TopWindows : getCurrentSettings(w)
  \/ \E h \in RuleHosts, w \in {"F1", NullWindow} : shouldBlock(HttpsURI(h), w)
  \/ \E w \in {"F1", NullWindow}, o \in {SubHost, NoHost} :
       recordDecision("noaction", w, o)
  \/ activate
  \/ deactivate
  \/ deleteUserSettings
  \/ deleteAllSettings

Spec == Init /\ [][Next]_vars

(***************************************************************************)
(* The policy over every content of the rule lists: the lists and the      *)
(* request are drawn at the start, and the policy is called on them.       *)
(***************************************************************************)
\* how many labels a requested host has below its base domain, at most
MaxSubLabels == 1

\* tracker.com, cdn.tracker.com, edge.cdn.tracker.com, ...
RECURSIVE HostBelow(_)
HostBelow(n) ==
  IF n = 0 THEN BaseHost
  ELSE IF n = 1 THEN SubHost
  ELSE <<"edge">> \o HostBelow(n - 1)

RequestHosts == {HostBelow(n) : n \in 0..MaxSubLabels}

PolicyLocations == {HttpsURI(h) : h \in RequestHosts} \cup {AboutBlank}

PolicyNodes ==
  {Request(TYPE_SCRIPT, NoHref, n, NoHref) :
     n \in {NoNode, OpaqueNode, ChannelNode}}
  \cup
  {Request(TYPE_SCRIPT, NoHref, n, h) :
     n \in {WindowNode("W1"), ElementNode("F1"), WindowNode("W2")},
     h \in {HttpsURI(SiteHost), HttpsURI(BaseHost), AboutBlank, NoHref}}

\* a top-level document load comes with its own window or with no node
DocumentNodes ==
  {c \in PolicyNodes :
     c.node \in {NoNode, WindowNode("W1")} /\ c.href # AboutBlank}

PolicyRequests ==
  {Request(TYPE_SCRIPT, l, c.node, c.href) :
     l \in PolicyLocations,
     c \in PolicyNodes}
  \cup
  {Request(TYPE_DOCUMENT, l, c.node, c.href) :
     l \in PolicyLocations,
     c \in DocumentNodes}

InitPolicy ==
  /\ userRed \in SUBSET RuleHosts
  /\ userYellow \in SUBSET RuleHosts
  /\ userGreen \in SUBSET RuleHosts
  /\ preloads \in SUBSET RuleHosts
  /\ blockedOrigins \in SUBSET {BaseHost}
  /\ settingsMap = EmptyMap
  /\ changedSettings = EmptyMap
  /\ req \in PolicyRequests
  /\ last = [op |-> "init"]

\* the window the observer passes for the request: the one of its node, or none
ObserverWindows(r) == {getWindowForContext(r.node), NullWindow} \ {ChannelObject}

NextPolicy ==
  \/ shouldLoad(req)
  \/ \E w \in ObserverWindows(req) :
       /\ req.location.host # NoHost
       /\ shouldCookieblock(req.location, w)

SpecPolicy == InitPolicy /\ [][NextPolicy]_vars

(***************************************************************************)
(* The panel: the user stages settings, the panel hides and commits them,  *)
(* pages go on loading.                                                    *)
(***************************************************************************)
\* the actions the panel may send with "update": the three of the popup's
\* controls and a name handleNewSettings has no case for
PanelActions == {"block", "cookieblock", "noaction", "userblock"}

PanelRequests ==
  {Request(TYPE_SCRIPT, HttpsURI(SubHost), WindowNode("W1"), HttpsURI(SiteHost))}

\* the settings the panel sends: any action for the host of the request, a
\* block or a cookieblock for its base domain
PanelUpdates ==
  {[origin |-> SubHost, action |-> a] : a \in PanelActions}
  \cup {[origin |-> BaseHost, action |-> a] : a \in {"block", "cookieblock"}}

\* what buildSettingsDict returns: for each origin whose control the user
\* changed, the action of its new class
SettingsDicts ==
  {Put(EmptyMap, SubHost, "cookieblock"),
   Put(Put(EmptyMap, SubHost, "noaction"), BaseHost, "block")}

InitPanel ==
  /\ userRed \in SUBSET RuleHosts
  /\ userYellow \in SUBSET RuleHosts
  /\ userGreen \in SUBSET {SubHost}
  /\ preloads = {}
  /\ blockedOrigins = {BaseHost}
  /\ settingsMap = EmptyMap
  /\ changedSettings = EmptyMap
  /\ req = NoReq
  /\ last = [op |-> "init"]

NextPanel ==
  \/ \E d \in PanelUpdates : handleUpdate(d)
  \/ \E o \in RuleHosts : handleReset(o)
  \/ onHide
  \/ \E d \in SettingsDicts : popupApplySettings(d)
  \/ \E r \in PanelRequests : shouldLoad(r)
  \/ shouldCookieblock(HttpsURI(SubHost), "W1")
  \/ recordDecision("noaction", "W1", SubHost)
  \/ getCurrentSettings("W1")
  \/ \E f \in LocationFlags : onLocationChange("W1", f)
  \/ activate
  \/ deactivate
  \/ deleteUserSettings
  \/ deleteAllSettings

SpecPanel == InitPanel /\ [][NextPanel]_vars

(***************************************************************************)
(* What the claims speak of                                                *)
(***************************************************************************)
ReqHost == req.location.host
ReqBase == getBaseDomain(req.location.host)
ReqWindow == getWindowForContext(req.node)

\* the request has a window whose top window shows a document with a host
HasTopDocument(r) ==
  /\ getWindowForContext(r.node) \in Windows
  /\ r.href.host # NoHost

\* a sub-resource request of a page, to another registrable domain than the
\* page's: the requests the rule lists are consulted for
ThirdParty(r) ==
  /\ ~hasWhitelistedScheme(r.location)
  /\ r.contentType # TYPE_DOCUMENT
  /\ HasTopDocument(r)
  /\ getBaseDomain(r.location.host) # getBaseDomain(r.href.host)

FirstParty(r) ==
  /\ HasTopDocument(r)
  /\ r.location.host # NoHost
  /\ getBaseDomain(r.location.host) = getBaseDomain(r.href.host)

InNoUserSet(h) == h \notin userRed /\ h \notin userYellow /\ h \notin userGreen

\* the tag the top window of w has on record for host h, "" when none
Recorded(w, h) ==
  LET table == MapGet(settingsMap, Top(w))
  IN IF h \in DOMAIN table.tags THEN table.tags[h] ELSE ""

(* C1: a third-party request whose host is in userRed is rejected, and the
   one event it emits is userblock for that host, whatever the other lists
   hold. *)
C1_UserRedBlocks ==
  (last.op = "shouldLoad" /\ ThirdParty(req) /\ ReqHost \in userRed)
    => /\ last.verdict = REJECT
       /\ last.events = <<Event("userblock", ReqWindow, ReqHost)>>

C1_Witness ==
  /\ last.op = "shouldLoad" /\ ThirdParty(req)
  /\ ReqHost = SubHost
  /\ RuleHosts \subseteq userRed \cap userGreen \cap userYellow \cap preloads
  /\ BaseHost \in blockedOrigins
  /\ last.verdict = REJECT

(* C2: a third-party request whose host is in userGreen and not in userRed
   is accepted with the one event usernoaction, also when its base domain is
   on the heuristic blocklist or the host is in userYellow or preloads. *)
C2_UserGreenAllows ==
  (last.op = "shouldLoad" /\ ThirdParty(req)
     /\ ReqHost \in userGreen /\ ReqHost \notin userRed)
    => /\ last.verdict = ACCEPT
       /\ last.events = <<Event("usernoaction", ReqWindow, ReqHost)>>

C2_Witness ==
  /\ last.op = "shouldLoad" /\ ThirdParty(req)
  /\ ReqHost = SubHost /\ SubHost \in userGreen /\ SubHost \notin userRed
  /\ SubHost \in userYellow /\ SubHost \in preloads
  /\ BaseHost \in blockedOrigins /\ BaseHost \in userRed
  /\ last.verdict = ACCEPT

(* C3 as claimed: a third-party request to a host in no user list and not in
   preloads, whose base domain is on the heuristic blocklist, is rejected
   with the event block, for every content of the lists. *)
C3_Claimed ==
  (last.op = "shouldLoad" /\ ThirdParty(req)
     /\ ReqBase \in blockedOrigins /\ InNoUserSet(ReqHost)
     /\ ReqHost \notin preloads)
    => /\ last.verdict = REJECT
       /\ last.events = <<Event("block", ReqWindow, ReqHost)>>

(* C3, amended: the same, provided the base domain is not in userYellow
   either. *)
C3_HeuristicBlocks ==
  (last.op = "shouldLoad" /\ ThirdParty(req)
     /\ ReqBase \in blockedOrigins /\ InNoUserSet(ReqHost)
     /\ ReqBase \notin userYellow /\ ReqHost \notin preloads)
    => /\ last.verdict = REJECT
       /\ last.events = <<Event("block", ReqWindow, ReqHost)>>

C3_Witness ==
  /\ last.op = "shouldLoad" /\ ThirdParty(req)
  /\ ReqHost = SubHost /\ InNoUserSet(SubHost) /\ SubHost \notin preloads
  /\ BaseHost \in blockedOrigins /\ BaseHost \notin userYellow
  /\ BaseHost \in userRed /\ BaseHost \in userGreen /\ BaseHost \in preloads
  /\ last.verdict = REJECT

\* shouldCookieblock returned true for host h, its last event is tag for h (on
\* record when the call had a window), and it clobbered the cookies of h
Cookieblocked(h, tag) ==
  /\ last.ret = TRUE
  /\ last.events # <<>>
  /\ last.events[Len(last.events)] = Event(tag, last.window, h)
  /\ last.window # NullWindow => Recorded(last.window, h) = tag
  /\ last.clobbered = <<h>>

(* C4 as claimed: for a host in preloads and in no user list, with its base
   domain on the heuristic blocklist, a third-party request is accepted, and
   shouldCookieblock returns true, records cookieblock for the host and
   clobbers its cookies. *)
C4_Claimed ==
  /\ (last.op = "shouldLoad" /\ ThirdParty(req) /\ ReqHost \in preloads
        /\ ReqBase \in blockedOrigins /\ InNoUserSet(ReqHost))
       => last.verdict = ACCEPT
  /\ (last.op = "shouldCookieblock" /\ last.location.host \in preloads
        /\ getBaseDomain(last.location.host) \in blockedOrigins
        /\ InNoUserSet(last.location.host))
       => Cookieblocked(last.location.host, "cookieblock")

(* C4, amended: the same, provided the base domain is not in userYellow; the
   tag is put on record when the call is given a window. *)
C4_PreloadDegrades ==
  /\ (last.op = "shouldLoad" /\ ThirdParty(req) /\ ReqHost \in preloads
        /\ ReqBase \in blockedOrigins /\ InNoUserSet(ReqHost)
        /\ ReqBase \notin userYellow)
       => last.verdict = ACCEPT
  /\ (last.op = "shouldCookieblock" /\ last.location.host \in preloads
        /\ getBaseDomain(last.location.host) \in blockedOrigins
        /\ InNoUserSet(last.location.host)
        /\ getBaseDomain(last.location.host) \notin userYellow)
       => Cookieblocked(last.location.host, "cookieblock")

C4_Witness ==
  /\ last.op = "shouldCookieblock" /\ last.location.host = SubHost
  /\ SubHost \in preloads /\ BaseHost \in blockedOrigins
  /\ InNoUserSet(SubHost) /\ BaseHost \notin userYellow
  /\ last.window = "F1" /\ Recorded("W1", SubHost) = "cookieblock"
  /\ last.clobbered = <<SubHost>>

\* the read comes right after the document change of its own window
ReadAfterClear ==
  /\ last.op = "getCurrentSettings"
  /\ last.win \in TopWindows
  /\ last.after.win = last.win

(* C5 as claimed: reading a top window's settings right after its location
   changed to another document yields the table {cleared: true}. *)
C5_Claimed == ReadAfterClear => last.result = ClearedTable

(* C5, amended: reading a top window's settings right after its location
   changed to another document yields the empty table, whatever was on
   record for the window before. *)
C5_NavigationEmpties == ReadAfterClear => last.result = EmptyTable

C5_Witness == ReadAfterClear /\ last.after.had /\ last.result = EmptyTable

(* C6 as claimed: committing a staged block leaves the origin in userRed and
   in neither userYellow nor userGreen, and committing a staged reset leaves
   it in none of the three, whatever the lists held before. *)
C6_Claimed ==
  last.op = "hide" =>
    \A o \in DOMAIN last.settings :
      /\ last.settings[o] = "block"
           => (o \in userRed /\ o \notin userYellow /\ o \notin userGreen)
      /\ last.settings[o] = "reset" => InNoUserSet(o)

(* C6, amended: committing a staged block leaves the origin in userRed and
   leaves it in userYellow and in userGreen exactly if it was there before;
   committing a staged reset leaves it in none of the three. *)
C6_CommitRoundTrip ==
  last.op = "hide" =>
    \A o \in DOMAIN last.settings :
      /\ last.settings[o] = "block"
           => /\ o \in userRed
              /\ o \in userYellow <=> o \in last.before.yellow
              /\ o \in userGreen <=> o \in last.before.green
      /\ last.settings[o] = "reset" => InNoUserSet(o)

C6_Witness ==
  /\ last.op = "hide"
  /\ last.settings = Put(Put(EmptyMap, SubHost, "block"), BaseHost, "reset")
  /\ SubHost \in last.before.green /\ SubHost \notin last.before.red
  /\ BaseHost \in last.before.red
  /\ SubHost \in userRed /\ SubHost \in userGreen /\ InNoUserSet(BaseHost)

\* the input the policy cannot classify: no window, a top window with no
\* location, or a top location the third-party check raises on
Uncertain(r) ==
  \/ getWindowForContext(r.node) = NullWindow
  \/ /\ getWindowForContext(r.node) \in Windows
     /\ r.href.host = NoHost

(* C7: shouldLoad on input it cannot classify returns ACCEPT: it raises
   nothing and rejects nothing. *)
C7_FailOpen ==
  (last.op = "shouldLoad" /\ Uncertain(req)) => last.verdict = ACCEPT

\* the request stops at the gate
AtGate(r) ==
  \/ hasWhitelistedScheme(r.location)
  \/ r.contentType = TYPE_DOCUMENT
  \/ FirstParty(r)

(* C8: a request with a whitelisted scheme, a top-level document load and a
   first-party request are accepted, emit no event and leave every table of
   the settings map as it was, whatever the rule lists hold. *)
C8_GateShortCircuit ==
  [][(last'.op = "shouldLoad" /\ AtGate(req'))
       => /\ last'.verdict = ACCEPT
          /\ last'.events = <<>>
          /\ settingsMap' = settingsMap]_vars

C8_Witness ==
  /\ last.op = "shouldLoad" /\ FirstParty(req)
  /\ req.contentType = TYPE_SCRIPT
  /\ ReqHost \in userRed /\ ReqBase \in blockedOrigins
  /\ Recorded(ReqWindow, ReqHost) = "cookieblock"
  /\ last.verdict = ACCEPT

(* C9: a shouldLoad call that repeats the call before it, with the rule
   lists as they were, returns the same verdict, emits the same events and
   leaves the settings map as the first call left it. *)
C9_Idempotent ==
  [][(last.op = "shouldLoad" /\ last'.op = "shouldLoad" /\ req' = req
        /\ ruleLists' = ruleLists)
       => /\ last'.verdict = last.verdict
          /\ last'.events = last.events
          /\ settingsMap' = settingsMap]_vars

C9_Witness ==
  /\ last.op = "shouldLoad" /\ last.again
  /\ last.verdict = REJECT /\ last.events # <<>>

(* C10: when shouldLoad rejects a request made from a window, the table of
   that window's top window maps the request's host to userblock if the host
   is in userRed and to block otherwise. *)
C10_VerdictOnRecord ==
  (last.op = "shouldLoad" /\ last.verdict = REJECT /\ ReqWindow # NullWindow)
    => Recorded(ReqWindow, ReqHost) =
         (IF ReqHost \in userRed THEN "userblock" ELSE "block")

C10_Witness ==
  /\ last.op = "shouldLoad" /\ last.verdict = REJECT
  /\ req.node = ElementNode("F1") /\ ReqHost = SubHost
  /\ SubHost \notin userRed
  /\ "W1" \in DOMAIN settingsMap /\ "F1" \notin DOMAIN settingsMap
  /\ settingsMap["W1"].tags = Put(EmptyMap, SubHost, "block")

\* the events the step to the next state emitted, in order
StepEvents ==
  IF last'.op \in {"shouldLoad", "shouldCookieblock", "shouldBlock",
                   "recordDecision"}
  THEN last'.events ELSE <<>>

\* the windows whose table the step to the next state cleared
StepCleared ==
  IF last'.op = "locationChange" /\ last'.cleared THEN {last'.win}
  ELSE IF last'.op \in {"activate", "deactivate", "deleteUserSettings",
                        "deleteAllSettings"}
  THEN Windows
  ELSE {}

\* the tag the table kept under window w holds for host h, "" when none
TagAt(map, w, h) ==
  IF w \in DOMAIN map /\ h \in DOMAIN map[w].tags THEN map[w].tags[h] ELSE ""

\* the tag of the last of the events raised for host h in a window whose top
\* window is top, otherwise none
RECURSIVE LastTag(_, _, _, _)
LastTag(events, top, h, none) ==
  IF events = <<>> THEN none
  ELSE LET e == events[Len(events)]
       IN IF e.win # NullWindow /\ Top(e.win) = top /\ e.origin = h
          THEN e.msg
          ELSE LastTag(SubSeq(events, 1, Len(events) - 1), top, h, none)

(* C11: last write wins.  Through every step, the table of a top window
   holds for a host the tag of the most recent event raised for that host
   in the window or in one of its frames since the table was last cleared,
   what it held before when the step raised none, and nothing when the step
   cleared it; a frame never has a table of its own, and no table has an
   entry for the empty host. *)
C11_LastWriteWins ==
  [][\A w \in Windows, h \in RuleHosts \cup {NoHost} :
       TagAt(settingsMap', w, h) =
         IF w # Top(w) \/ h = NoHost THEN ""
         ELSE LastTag(StepEvents, w, h,
                      IF w \in StepCleared THEN "" ELSE TagAt(settingsMap, w, h))
    ]_vars

\* a frame's event replaced, in its top window's table, the other tag that
\* was there
C11_Witness ==
  /\ last.op \in {"shouldLoad", "shouldCookieblock", "shouldBlock"}
  /\ Len(last.events) = 2
  /\ last.events[1].win = "F1"
  /\ last.events[1].origin = last.events[2].origin
  /\ last.events[1].msg # last.events[2].msg
  /\ "F1" \notin DOMAIN settingsMap
  /\ TagAt(settingsMap, "W1", last.events[2].origin) = last.events[2].msg

\* the event names no window or no origin
Absent(e) == e.win = NullWindow \/ e.origin = NoHost

\* the step to the next state is a call that raised no event, or only events
\* that name no window or no origin
OnlyAbsentEvents ==
  /\ last'.op \in {"shouldLoad", "shouldCookieblock", "shouldBlock",
                   "recordDecision"}
  /\ \A i \in 1..Len(StepEvents) : Absent(StepEvents[i])

\* the step to the next state is shouldBlockRequest with no window, at a host
\* the user did not block whose base domain the heuristic blocks
BlockRuleWithoutWindow ==
  /\ last'.op = "shouldBlock"
  /\ last'.window = NullWindow
  /\ last'.location.host \notin userRed
  /\ getBaseDomain(last'.location.host) \in blockedOrigins

(* C12: an event that names no window or no origin changes no table and
   raises nothing to the caller: a step all of whose events are such leaves
   the settings map as it was, and shouldBlockRequest with no window that
   reaches the heuristic block rule returns true after raising its block
   event. *)
C12_SilentOnAbsent ==
  [][/\ OnlyAbsentEvents => settingsMap' = settingsMap
     /\ (last'.op = "shouldBlock") => last'.ret \in BOOLEAN
     /\ BlockRuleWithoutWindow =>
          /\ last'.ret = TRUE
          /\ last'.events = <<Event("block", NullWindow, last'.location.host)>>
    ]_vars

\* the heuristic block rule was reached with no window, with tables on record
C12_Witness ==
  /\ last.op = "shouldBlock"
  /\ last.window = NullWindow
  /\ last.ret = TRUE
  /\ Len(last.events) = 1
  /\ last.events[1].msg = "block"
  /\ DOMAIN settingsMap # {}
  /\ TagAt(settingsMap, "W1", last.location.host) # "block"

\* the request is taken to the rule lists: it is not of a whitelisted scheme,
\* not a document load, comes with a window whose top window has a location,
\* and is not known to be of the top document's own base domain
ReachesRules(r) ==
  /\ ~hasWhitelistedScheme(r.location)
  /\ r.contentType # TYPE_DOCUMENT
  /\ getWindowForContext(r.node) \in Windows
  /\ r.href # NoHref
  /\ (r.href.host = NoHost
      \/ getBaseDomain(r.location.host) # getBaseDomain(r.href.host))

\* the rule of specification 4.2 the request ends at, by the lists
RuleOf(r) ==
  LET host == r.location.host
      base == getBaseDomain(r.location.host)
  IN IF ~ReachesRules(r) THEN "gate"
     ELSE IF host \in userRed THEN "userRed"
     ELSE IF host \in userGreen THEN "userGreen"
     ELSE IF host \in userYellow \/ base \in userYellow THEN "userYellow"
     ELSE IF host \in preloads THEN "preloads"
     ELSE IF base \in blockedOrigins THEN "block"
     ELSE "default"

\* the tag a rule raises
TagOf(rule) ==
  CASE rule = "userRed" -> "userblock"
    [] rule = "userGreen" -> "usernoaction"
    [] rule = "userYellow" -> "usercookieblock"
    [] rule = "block" -> "block"
    [] OTHER -> ""

DecisionTags ==
  {"userblock", "usercookieblock", "usernoaction", "block", "cookieblock",
   "noaction"}

(* C13 as claimed: a shouldLoad call that ends at user red, user green,
   user yellow, preloads or heuristic block emits exactly one event, with a
   decision tag; one that ends at the gate or at the default emits none. *)
C13_Claimed ==
  (last.op = "shouldLoad") =>
    IF RuleOf(req) \in {"userRed", "userGreen", "userYellow", "preloads", "block"}
    THEN Len(last.events) = 1 /\ last.events[1].msg \in DecisionTags
    ELSE last.events = <<>>

(* C13: a shouldLoad call that ends at user red, user green, user yellow or
   heuristic block emits exactly one event, with the tag of its rule, for
   the request's window and host; one that ends at the gate, at the preloads
   rule or at the default emits none. *)
C13_EventCount ==
  (last.op = "shouldLoad") =>
    IF RuleOf(req) \in {"userRed", "userGreen", "userYellow", "block"}
    THEN last.events = <<Event(TagOf(RuleOf(req)), ReqWindow, ReqHost)>>
    ELSE last.events = <<>>

\* a request ended at the preloads rule, its base domain on the heuristic list
C13_Witness ==
  /\ last.op = "shouldLoad"
  /\ RuleOf(req) = "preloads"
  /\ ReqBase \in blockedOrigins
  /\ last.verdict = ACCEPT
  /\ last.events = <<>>

userLists == <<userRed, userYellow, userGreen>>

(* C14 as claimed: the user lists change only in the commit a hiding panel
   makes, and preloads never changes: every step that is not a commit leaves
   userRed, userYellow and userGreen as they were. *)
C14_Claimed ==
  [][/\ preloads' = preloads
     /\ (last'.op # "hide") => userLists' = userLists]_vars

(* C14: preloads never changes, and the user lists change only in the commit
   and in deleteUserSettings and deleteAllSettings: shouldLoad,
   shouldCookieblock, a decision event, a read, staging, navigation,
   activate and deactivate leave userRed, userYellow and userGreen as they
   were. *)
C14_UserListsFrame ==
  [][/\ preloads' = preloads
     /\ (last'.op \notin {"hide", "deleteUserSettings", "deleteAllSettings"})
          => userLists' = userLists]_vars

\* activate cleared a settings map that had decisions on record, with hosts on
\* the user lists and a setting staged
C14_Witness ==
  /\ last.op = "activate"
  /\ last.had # {}
  /\ userRed # {} /\ userYellow # {} /\ userGreen # {}
  /\ DOMAIN changedSettings # {}

\* the verdict of the rule a request ends at
VerdictOf(rule) == IF rule \in {"userRed", "block"} THEN REJECT ELSE ACCEPT

\* the events of the rule request r ends at
EventsOf(r) ==
  IF TagOf(RuleOf(r)) = "" THEN <<>>
  ELSE <<Event(TagOf(RuleOf(r)), getWindowForContext(r.node), r.location.host)>>

(* C15: staging changes only the staging area.  An update or a reset of the
   panel changes changedSettings at its origin and nothing else, neither a
   rule list nor a table of the settings map; and a shouldLoad call returns
   the verdict and emits the event that the rule lists alone give it,
   whatever is staged. *)
C15_StagingIsolated ==
  [][/\ (last'.op \in {"update", "reset"})
         => /\ ruleLists' = ruleLists
            /\ settingsMap' = settingsMap
            /\ changedSettings' =
                 Put(changedSettings, last'.origin, last'.action)
     /\ (last'.op = "shouldLoad")
         => /\ last'.verdict = VerdictOf(RuleOf(req'))
            /\ last'.events = EventsOf(req')
    ]_vars

\* a request was rejected by the heuristic while the panel had the host
\* staged as allowed
C15_Witness ==
  /\ last.op = "shouldLoad"
  /\ ReqHost \in DOMAIN changedSettings
  /\ changedSettings[ReqHost] = "noaction"
  /\ InNoUserSet(ReqHost)
  /\ last.verdict = REJECT
  /\ Recorded("W1", ReqHost) = "block"

\* the origins among done that settings stages with the given action
Staged(settings, done, action) == {o \in done : settings[o] = action}

\* the user lists before, with the staged settings of the origins in done
\* applied and those of the other origins not
After(before, settings, done) ==
  UserSets((before.red \ Staged(settings, done, "reset"))
             \cup Staged(settings, done, "block"),
           (before.yellow \ Staged(settings, done, "reset"))
             \cup Staged(settings, done, "cookieblock"),
           (before.green \ Staged(settings, done, "reset"))
             \cup Staged(settings, done, "noaction"))

\* the user lists a commit would show half-way: some staged settings applied,
\* others not, and the lists neither as before nor as after
Partial(before, settings) ==
  {After(before, settings, done) : done \in SUBSET DOMAIN settings}
    \ {before, After(before, settings, DOMAIN settings)}

ObserverOps == {"shouldLoad", "shouldCookieblock", "getCurrentSettings"}

(* C16: a commit is seen whole.  The panel's handler runs to its end before
   any other call is served, so the first policy check or read after a
   commit finds the user lists with every staged setting applied, never
   with some applied and others not, and leaves them so. *)
C16_CommitAtomic ==
  [][(last.op = "hide" /\ last'.op \in ObserverOps)
       => /\ UserSets(userRed, userYellow, userGreen)
               = After(last.before, last.settings, DOMAIN last.settings)
          /\ UserSets(userRed, userYellow, userGreen)
               \notin Partial(last.before, last.settings)
          /\ userLists' = userLists]_vars

\* a commit of two settings, each of which alone would have changed the user
\* lists, has run
C16_Witness ==
  /\ last.op = "hide"
  /\ Cardinality(DOMAIN last.settings) = 2
  /\ Cardinality(Partial(last.before, last.settings)) = 2
  /\ UserSets(userRed, userYellow, userGreen) # last.before

\* the actions handleNewSettings has a case for
KnownActions == {"reset", "block", "cookieblock", "noaction"}

\* origin o is on the same user lists as before the commit
MembershipKept(o, before) ==
  /\ o \in userRed <=> o \in before.red
  /\ o \in userYellow <=> o \in before.yellow
  /\ o \in userGreen <=> o \in before.green

(* C17: an action the commit has no case for is skipped, and the commit goes
   on: the origin staged with it is on the user lists it was on before, every
   other staged setting is applied, and the commit returns true and reloads
   the tab. *)
C17_UnknownSkipped ==
  (last.op = "hide"
     /\ \E o \in DOMAIN last.settings : last.settings[o] \notin KnownActions)
  => /\ last.ret = TRUE /\ last.reloaded
     /\ \A o \in DOMAIN last.settings :
          /\ last.settings[o] \notin KnownActions
               => MembershipKept(o, last.before)
          /\ last.settings[o] = "block" => o \in userRed
          /\ last.settings[o] = "cookieblock" => o \in userYellow
          /\ last.settings[o] = "noaction" => o \in userGreen
          /\ last.settings[o] = "reset" => InNoUserSet(o)

\* a commit of an unknown action for one host and of a block for another
C17_Witness ==
  /\ last.op = "hide"
  /\ last.settings = Put(Put(EmptyMap, SubHost, "userblock"), BaseHost, "block")
  /\ last.before = UserSets({}, {SubHost}, {})
  /\ userRed = {BaseHost} /\ userYellow = {SubHost} /\ userGreen = {}

ClearAllOps ==
  {"activate", "deactivate", "deleteUserSettings", "deleteAllSettings"}

(* C18: after activate, deactivate, deleteUserSettings or deleteAllSettings
   no table holds a decision recorded before, and reading the settings of
   any open top window returns the table {cleared: true}. *)
C18_ClearAllMarks ==
  (last.op \in ClearAllOps)
  => /\ \A w \in DOMAIN settingsMap : DOMAIN settingsMap[w].tags = {}
     /\ \A w \in TopWindows : MapGet(settingsMap, w) = ClearedTable

(* C19: clearing is scoped.  A location change whose flags are those of a
   same-document change leaves the settings map as it was; any other
   location change of a window removes the table kept under that window and
   leaves the table of every other window as it was. *)
C19_ClearScoped ==
  [][(last'.op = "locationChange")
       => IF last'.flags = LOCATION_CHANGE_SAME_DOCUMENT
          THEN settingsMap' = settingsMap
          ELSE /\ last'.win \notin DOMAIN settingsMap'
               /\ \A w \in Windows \ {last'.win} :
                    /\ w \in DOMAIN settingsMap' <=> w \in DOMAIN settingsMap
                    /\ MapGet(settingsMap', w) = MapGet(settingsMap, w)
    ]_vars

\* a top window navigated to another document: its table is gone, the other
\* top window's decisions are still on record
C19_Witness ==
  /\ last.op = "locationChange"
  /\ last.win = "W1"
  /\ last.flags # LOCATION_CHANGE_SAME_DOCUMENT
  /\ last.had
  /\ "W1" \notin DOMAIN settingsMap
  /\ "W2" \in DOMAIN settingsMap
  /\ DOMAIN settingsMap["W2"].tags # {}

\* the three checks of shouldCookieblockRequest, by the lists
YellowMatch(host) == host \in userYellow \/ getBaseDomain(host) \in userYellow

PreloadMatch(host) == host \in preloads \/ getBaseDomain(host) \in preloads

HeuristicCookieMatch(host) ==
  PreloadMatch(host) /\ getBaseDomain(host) \in blockedOrigins

SubdomainMatch(host) ==
  getBaseDomain(host) \in userRed \/ getBaseDomain(host) \in blockedOrigins

\* the tags of a sequence of events
Tags(events) == [i \in 1..Len(events) |-> events[i].msg]

(* C20: shouldCookieblockRequest returns true exactly when the host or its
   base domain is on userYellow, or the host or its base domain is on
   preloads and the base domain on blockedOrigins, or the base domain is on
   userRed or on blockedOrigins; the checks are tried in that order, the
   first that matches answering: a match on userYellow raises no cookieblock
   event whatever the other lists hold. *)
C20_CookieblockResult ==
  (last.op = "shouldCookieblock") =>
    LET host == last.location.host
    IN /\ last.ret = (\/ YellowMatch(host)
                      \/ HeuristicCookieMatch(host)
                      \/ SubdomainMatch(host))
       /\ Tags(last.events) =
            IF YellowMatch(host)
            THEN (IF last.window = NullWindow THEN <<>>
                  ELSE <<"usercookieblock">>)
            ELSE IF HeuristicCookieMatch(host) THEN <<"cookieblock">>
            ELSE (IF PreloadMatch(host) THEN <<"noaction">> ELSE <<>>)
                 \o (IF SubdomainMatch(host) THEN <<"cookieblock">> ELSE <<>>)

\* a host below a base domain the user blocked, on no other list: the third
\* check answered
C20_Witness ==
  /\ last.op = "shouldCookieblock"
  /\ last.location.host = SubHost
  /\ ~YellowMatch(SubHost) /\ ~PreloadMatch(SubHost)
  /\ BaseHost \in userRed /\ SubHost \notin userRed
  /\ BaseHost \notin blockedOrigins
  /\ last.ret = TRUE
  /\ last.clobbered = <<SubHost>>

(* C21 as claimed: shouldCookieblockRequest for a host that is, or whose
   base domain is, on userYellow returns true and clobbers the host's
   cookie, on a match of the host as on a match of the base domain. *)
C21_Claimed ==
  (last.op = "shouldCookieblock" /\ YellowMatch(last.location.host))
  => /\ last.ret = TRUE
     /\ last.clobbered = <<last.location.host>>

(* C21: shouldCookieblockRequest for a host that is, or whose base domain
   is, on userYellow returns true; it clobbers the host's cookie when the
   host itself is not on userYellow and the match is on its base domain,
   and clobbers nothing when the host itself is on userYellow. *)
C21_YellowClobbers ==
  (last.op = "shouldCookieblock" /\ YellowMatch(last.location.host))
  => /\ last.ret = TRUE
     /\ last.clobbered = IF last.location.host \in userYellow THEN <<>>
                         ELSE <<last.location.host>>

\* a host below its base domain, both on userYellow: true, nothing clobbered
C21_Witness ==
  /\ last.op = "shouldCookieblock"
  /\ last.location.host = SubHost
  /\ SubHost \in userYellow /\ BaseHost \in userYellow
  /\ last.ret = TRUE
  /\ last.clobbered = <<>>

(* C22: a third-party request to a host on neither userRed nor userGreen
   that is, or whose base domain is, on userYellow is accepted with the one
   event usercookieblock, also when its base domain is on blockedOrigins;
   when the host itself is not on userYellow, so that the match is on the
   base domain, the host's cookie is clobbered, and otherwise none is. *)
C22_YellowIgnored ==
  (/\ last.op = "shouldLoad"
   /\ ThirdParty(req)
   /\ ReqHost \notin userRed /\ ReqHost \notin userGreen
   /\ YellowMatch(ReqHost))
  => /\ last.verdict = ACCEPT
     /\ last.events = <<Event("usercookieblock", ReqWindow, ReqHost)>>
     /\ last.clobbered = IF ReqHost \in userYellow THEN <<>> ELSE <<ReqHost>>

\* the base domain is on userYellow and on blockedOrigins, the host on no list
C22_Witness ==
  /\ last.op = "shouldLoad"
  /\ ThirdParty(req)
  /\ ReqHost = SubHost
  /\ InNoUserSet(SubHost) /\ SubHost \notin preloads
  /\ BaseHost \in userYellow /\ BaseHost \in blockedOrigins
  /\ last.verdict = ACCEPT
  /\ last.clobbered = <<SubHost>>
  /\ Recorded(ReqWindow, SubHost) = "usercookieblock"

\* host h is on no list itself, and its base domain is on userRed and not on
\* blockedOrigins
OnlyParentBlocked(h) ==
  /\ InNoUserSet(h) /\ h \notin preloads /\ h \notin blockedOrigins
  /\ getBaseDomain(h) \in userRed
  /\ getBaseDomain(h) \notin blockedOrigins

\* what the claim says of a call for such a host: shouldLoad accepts a
\* third-party request and emits nothing; shouldCookieblockRequest returns
\* true, its last event is cookieblock for the host, on record when the call
\* has a window, and the host's cookie is clobbered
InheritsCookieblock ==
  /\ (last.op = "shouldLoad" /\ ThirdParty(req))
       => (last.verdict = ACCEPT /\ last.events = <<>>)
  /\ (last.op = "shouldCookieblock")
       => /\ last.ret = TRUE
          /\ last.events # <<>>
          /\ last.events[Len(last.events)]
               = Event("cookieblock", last.window, last.location.host)
          /\ last.clobbered = <<last.location.host>>
          /\ (last.window # NullWindow)
               => Recorded(last.window, last.location.host) = "cookieblock"

\* the host the last call was about
CallHost ==
  IF last.op = "shouldLoad" THEN ReqHost
  ELSE IF last.op = "shouldCookieblock" THEN last.location.host
  ELSE NoHost

(* C23 as claimed: for a host on no list itself whose base domain is on
   userRed and not on blockedOrigins, shouldLoad accepts without an event
   and shouldCookieblockRequest returns true, records cookieblock and
   clobbers the host's cookie. *)
C23_Claimed ==
  (CallHost # NoHost /\ OnlyParentBlocked(CallHost)) => InheritsCookieblock

(* C23: the same, for a host whose base domain is not on userYellow
   either: a block of the base domain by the user cookie-blocks its
   subdomains and does not block them. *)
C23_SubdomainInherits ==
  (/\ CallHost # NoHost
   /\ OnlyParentBlocked(CallHost)
   /\ getBaseDomain(CallHost) \notin userYellow)
  => InheritsCookieblock

\* the cookieblock of a subdomain of a blocked base domain is on record
C23_Witness ==
  /\ last.op = "shouldCookieblock"
  /\ last.location.host = SubHost
  /\ last.window # NullWindow
  /\ OnlyParentBlocked(SubHost)
  /\ BaseHost \notin userYellow
  /\ last.ret = TRUE
  /\ Recorded(last.window, SubHost) = "cookieblock"

(* C24 as claimed: a shouldCookieblockRequest call emits at most one event. *)
C24_Claimed ==
  (last.op = "shouldCookieblock") => Len(last.events) <= 1

\* the preloads check emits noaction and returns false, and the check of the
\* base domain that follows it matches on userRed
PassesThrough(host) ==
  /\ ~YellowMatch(host)
  /\ PreloadMatch(host)
  /\ getBaseDomain(host) \notin blockedOrigins
  /\ getBaseDomain(host) \in userRed

(* C24: a shouldCookieblockRequest call emits at most one event from each of
   its checks, all for the request's window and host, and at most two in
   all: two exactly when the host or its base domain is on preloads, neither
   is on userYellow, and the base domain is on userRed and not on
   blockedOrigins, and then noaction followed by cookieblock.  A host on
   preloads whose base domain is on no list gets the one event noaction and
   the call returns false. *)
C24_EventsPerCall ==
  (last.op = "shouldCookieblock") =>
    LET host == last.location.host
    IN /\ \A i \in 1..Len(last.events) :
            last.events[i].win = last.window /\ last.events[i].origin = host
       /\ Len(last.events) <= 2
       /\ Len(last.events) = 2 <=> PassesThrough(host)
       /\ PassesThrough(host) => Tags(last.events) = <<"noaction", "cookieblock">>
       /\ (/\ host \in preloads
           /\ InNoUserSet(host)
           /\ InNoUserSet(getBaseDomain(host))
           /\ getBaseDomain(host) \notin blockedOrigins)
          => (last.ret = FALSE /\ Tags(last.events) = <<"noaction">>)

\* a preloaded host below a base domain the user blocked: two events, the
\* second on record
C24_Witness ==
  /\ last.op = "shouldCookieblock"
  /\ last.location.host = SubHost
  /\ last.window # NullWindow
  /\ SubHost \in preloads /\ InNoUserSet(SubHost)
  /\ BaseHost \in userRed
  /\ Tags(last.events) = <<"noaction", "cookieblock">>
  /\ Recorded(last.window, SubHost) = "cookieblock"

\* the table is a mapping from requested hosts to decision tags, without the
\* key cleared
IsDecisionTable(table) ==
  /\ ~table.cleared
  /\ DOMAIN table.tags \subseteq RuleHosts
  /\ \A h \in DOMAIN table.tags : table.tags[h] \in DecisionTags

(* C25: in every reachable state the table of each window of the settings
   map is either {cleared: true} alone or a mapping from requested hosts to
   decision tags without the key cleared (a window may have no table); no
   table holds the key cleared next to a recorded origin, and only top
   windows have tables. *)
C25_NeverMixed ==
  \A w \in DOMAIN settingsMap :
    /\ w \in TopWindows
    /\ settingsMap[w] = ClearedTable \/ IsDecisionTable(settingsMap[w])

\* one top window has decisions for two hosts on record, the other no table
C25_Witness ==
  /\ "W1" \in DOMAIN settingsMap
  /\ DOMAIN settingsMap["W1"].tags = RuleHosts
  /\ ~settingsMap["W1"].cleared
  /\ "W2" \notin DOMAIN settingsMap
  /\ last.op = "recordDecision"

(* C26: a staged setting is committed once, and the last one staged for an
   origin wins.  Staging an origin again replaces what was staged for it;
   the panel's hiding commits what is staged, each origin with the one
   action staged for it last, and empties the staging area; a hiding with
   nothing staged changes no rule list, returns false and reloads nothing. *)
C26_CommittedOnce ==
  [][/\ (last'.op \in {"update", "reset"})
         => /\ changedSettings'[last'.origin] = last'.action
            /\ \A o \in DOMAIN changedSettings' \ {last'.origin} :
                 o \in DOMAIN changedSettings
                   /\ changedSettings'[o] = changedSettings[o]
     /\ (last'.op = "hide")
         => /\ last'.settings = changedSettings
            /\ changedSettings' = EmptyMap
            /\ UserSets(userRed', userYellow', userGreen')
                 = After(UserSets(userRed, userYellow, userGreen),
                         changedSettings, DOMAIN changedSettings)
            /\ (changedSettings = EmptyMap)
                 => /\ ruleLists' = ruleLists
                    /\ ~last'.ret /\ ~last'.reloaded
            /\ (last.op = "hide") => changedSettings = EmptyMap
    ]_vars

\* the panel hid twice in a row: the second hiding found nothing staged and
\* left the user lists, not empty, as the first had left them
C26_Witness ==
  /\ last.op = "hide"
  /\ last.repeat
  /\ last.settings = EmptyMap
  /\ ~last.ret /\ ~last.reloaded
  /\ UserSets(userRed, userYellow, userGreen) = last.before
  /\ userRed # {}

(* C27: the settings the popup sends with "done" when the user applies them
   are received and staged, each origin with its action, and the panel's
   next hiding applies them to the user lists. *)
C27_PopupEditsApplied ==
  [][/\ (last'.op = "done")
         => /\ last'.received
            /\ \A o \in DOMAIN last'.settings :
                 /\ o \in DOMAIN changedSettings'
                 /\ changedSettings'[o] = last'.settings[o]
     /\ (last.op = "done" /\ last'.op = "hide")
         => \A o \in DOMAIN last.settings :
              /\ last.settings[o] = "block" => o \in userRed'
              /\ last.settings[o] = "cookieblock" => o \in userYellow'
              /\ last.settings[o] = "noaction" => o \in userGreen'
    ]_vars

====
